---- MODULE Spec2Model ----
(***************************************************************************)
(* Model of the Biscoop-app profile pages.                                 *)
(*                                                                         *)
(* History.tsx: the watch-history view.  React state is the VARIABLES; a   *)
(* handler and the render it causes are one step; the useEffect that       *)
(* re-runs applyFilters is a later step of its own (effectPending).        *)
(*                                                                         *)
(* Strings that the code inspects character by character (titles, genres,  *)
(* ratings, descriptions, the search text) are sequences of UTF-16 code    *)
(* units.  An optional field that is missing is a field missing from the   *)
(* record.  A Date is a number of ticks since the epoch, TicksPerDay ticks *)
(* to the day; an ISO string is <<day, tick of day>>; the value of a       *)
(* <input type="date"> is <<>> or <<day>>.                                 *)
(***************************************************************************)
EXTENDS Integers, Sequences, FiniteSets, TLC

VARIABLES movies, filteredMovies, loading, error,
          searchQuery, selectedGenres, ratingFilter, durationFilter,
          yearFilter, dateRange,
          sortBy, groupBy, itemsPerPage, currentPage,
          loadPc, effectPending, changedFrom

\* Login (its email, password, error and loading carry the prefix login)
VARIABLES loginEmail, loginPassword, loginError, loginLoading,
          loginAttempts, isBlocked, blockTimeRemaining,
          loginPc, onLoginCalled

\* EditProfile (its loading carries the prefix edit)
VARIABLES formData, avatarImage, showAvatarOptions, showDeleteConfirm,
          hasUnsavedChanges, successMessage, errorMessage, editLoading,
          editPc, unsavedEffectPending, userEdited, profileLoaded,
          confirmAsked, avatarAtMount

\* the keys of window.localStorage that Login and EditProfile read
VARIABLES localStorage

historyVars == <<movies, filteredMovies, loading, error,
                 searchQuery, selectedGenres, ratingFilter, durationFilter,
                 yearFilter, dateRange,
                 sortBy, groupBy, itemsPerPage, currentPage,
                 loadPc, effectPending, changedFrom>>

loginVars == <<loginEmail, loginPassword, loginError, loginLoading,
               loginAttempts, isBlocked, blockTimeRemaining,
               loginPc, onLoginCalled>>

editVars == <<formData, avatarImage, showAvatarOptions, showDeleteConfirm,
              hasUnsavedChanges, successMessage, errorMessage, editLoading,
              editPc, unsavedEffectPending, userEdited, profileLoaded,
              confirmAsked, avatarAtMount>>

vars == <<historyVars, loginVars, editVars, localStorage>>

\* what a step of History leaves alone
outsideHistory == <<loginVars, editVars, localStorage>>

(***************************************************************************)
(* Bounds                                                                  *)
(***************************************************************************)
\* ticks in a day (resolution of the clock)
TicksPerDay == 2
\* the day a date input can be set to
RangeDay == 60
\* longest base collection drawn for the filter and sort specifications
MaxLen == 3
\* longest history the loader returns
MaxHistory == 11
\* the day the history is loaded
NowDay == 100
\* days in a month and months in a year of the calendar
DaysPerMonth == 30
MonthsPerYear == 12

(***************************************************************************)
(* Strings                                                                 *)
(***************************************************************************)
chSpace == 32

sEmpty == <<>>
sBlank == <<32>>
\* "aB"
sQuery == <<97, 66>>
\* " c"
sQuerySp == <<32, 99>>
\* "Ab"
sAb == <<65, 98>>
\* "c"
sc == <<99>>
\* "C"
sC == <<67>>
\* "b c"
sbc == <<98, 32, 99>>
\* "xAb" (a genre)
sxAb == <<120, 65, 98>>
\* "R", "PG"
sR == <<82>>
sPG == <<80, 71>>
\* "all"
sAll == <<97, 108, 108>>
\* "Zed" (a genre)
sZed == <<90, 101, 100>>

\* String.prototype.toLowerCase on one code unit (A-Z only in the alphabet)
LowerChar(c) == IF c >= 65 /\ c <= 90 THEN c + 32 ELSE c

ToLowerCase(s) == [i \in 1..Len(s) |-> LowerChar(s[i])]

\* String.prototype.includes
Includes(s, q) ==
    \E i \in 0..(Len(s) - Len(q)) : SubSeq(s, i + 1, i + Len(q)) = q

IsSpace(c) == c = chSpace

\* String.prototype.trim
RECURSIVE TrimStart(_)
TrimStart(s) ==
    IF s = <<>> THEN s
    ELSE IF IsSpace(Head(s)) THEN TrimStart(Tail(s)) ELSE s

RECURSIVE TrimEnd(_)
TrimEnd(s) ==
    IF s = <<>> THEN s
    ELSE IF IsSpace(s[Len(s)]) THEN TrimEnd(SubSeq(s, 1, Len(s) - 1)) ELSE s

Trim(s) == TrimEnd(TrimStart(s))

\* lexicographic comparison of two sequences of numbers: -1, 0 or 1
RECURSIVE LexCompare(_, _)
LexCompare(s, t) ==
    IF s = <<>> /\ t = <<>> THEN 0
    ELSE IF s = <<>> THEN -1
    ELSE IF t = <<>> THEN 1
    ELSE IF Head(s) < Head(t) THEN -1
    ELSE IF Head(s) > Head(t) THEN 1
    ELSE LexCompare(Tail(s), Tail(t))

\* case weight of a code unit in the collation: lower case before upper case
CaseWeight(c) == IF c >= 65 /\ c <= 90 THEN 1 ELSE 0

\* String.prototype.localeCompare (default collation, letters and spaces):
\* first the letters without regard to case, then lower case before upper case
LocaleCompare(s, t) ==
    LET p == LexCompare(ToLowerCase(s), ToLowerCase(t))
    IN  IF p # 0 THEN p
        ELSE LexCompare([i \in 1..Len(s) |-> CaseWeight(s[i])],
                        [i \in 1..Len(t) |-> CaseWeight(t[i])])

(***************************************************************************)
(* Dates                                                                   *)
(***************************************************************************)
\* Date.prototype.toISOString: ticks since the epoch to <<day, tick of day>>
ToISOString(t) == <<t \div TicksPerDay, t % TicksPerDay>>

\* new Date(isoString).getTime()
DateOfISO(iso) == iso[1] * TicksPerDay + iso[2]

\* new Date("YYYY-MM-DD").getTime(): midnight UTC of that day
DateOfInput(v) == v[1] * TicksPerDay

(***************************************************************************)
(* History entries (FilmHistory)                                           *)
(***************************************************************************)
Has(m, f) == f \in DOMAIN m

\* JavaScript truthiness of an optional string field
TruthyStr(m, f) == Has(m, f) /\ m[f] # <<>>

\* movie.duration || 0
DurationOf(m) == IF Has(m, "duration") THEN m.duration ELSE 0

\* (movie as any).dateAdded ? new Date(...) : null, as ticks
HasDate(m) == Has(m, "dateAdded") /\ m.dateAdded # <<>>

\* new Date((movie as any).dateAdded).getTime()
DateOf(m) == DateOfISO(m.dateAdded)

\* entries the filter and sort specifications build base collections from
Pool ==
    LET d == RangeDay * TicksPerDay
    IN  { [id |-> 1, name |-> sAb, genre |-> sZed, rating |-> sR,
           duration |-> 89, description |-> sc,
           dateAdded |-> ToISOString(d - 1)],
          [id |-> 2, name |-> sc, genre |-> sxAb, rating |-> sPG,
           duration |-> 90, dateAdded |-> ToISOString(d)],
          [id |-> 3, name |-> sC, description |-> sAb,
           dateAdded |-> ToISOString(d + 1)],
          [id |-> 4, name |-> sbc, rating |-> sR, duration |-> 120],
          [id |-> 5, name |-> sc, genre |-> sZed, rating |-> sPG,
           duration |-> 121, description |-> sc,
           dateAdded |-> ToISOString(d + TicksPerDay)],
          [id |-> 6, name |-> sAb, genre |-> sxAb, duration |-> 120] }

\* sequences of distinct entries of Pool, at most n long
RECURSIVE SeqsUpTo(_)
SeqsUpTo(n) ==
    IF n = 0 THEN { <<>> }
    ELSE LET shorter == SeqsUpTo(n - 1)
         IN  shorter \cup
             { Append(s, m) : s \in { t \in shorter : Len(t) = n - 1 },
                              m \in Pool }

Distinct(s) == \A i, j \in 1..Len(s) : i # j => s[i].id # s[j].id

Bases == { s \in SeqsUpTo(MaxLen) : Distinct(s) }

(***************************************************************************)
(* applyFilters: the filter stage                                          *)
(***************************************************************************)
\* the search callback without lower-casing the fields of the entry
SearchMatchCaseSensitive(movie, query) ==
    \/ Includes(movie.name, query)
    \/ (Has(movie, "genre") /\ Includes(movie.genre, query))
    \/ (Has(movie, "description") /\ Includes(movie.description, query))

\* the callback of the search filter, for query = searchQuery.toLowerCase()
SearchMatch(movie, query) ==
    \/ Includes(ToLowerCase(movie.name), query)
    \/ (Has(movie, "genre") /\ Includes(ToLowerCase(movie.genre), query))
    \/ (Has(movie, "description")
          /\ Includes(ToLowerCase(movie.description), query))

\* the search collecting the title matches, then the genre matches, then the
\* description matches
SearchStageConcat(result, search) ==
    IF Trim(search) # <<>>
    THEN LET query == ToLowerCase(search)
             ByName(movie) == Includes(ToLowerCase(movie.name), query)
             ByGenre(movie) ==
                 Has(movie, "genre") /\ Includes(ToLowerCase(movie.genre), query)
             ByDescription(movie) ==
                 Has(movie, "description")
                   /\ Includes(ToLowerCase(movie.description), query)
         IN  SelectSeq(result, ByName) \o SelectSeq(result, ByGenre)
               \o SelectSeq(result, ByDescription)
    ELSE result

\* if (searchQuery.trim()) result = result.filter(...)
SearchStage(result, search) ==
    IF Trim(search) # <<>>
    THEN LET query == ToLowerCase(search)
             Keep(movie) == SearchMatch(movie, query)
         IN  SelectSeq(result, Keep)
    ELSE result

\* selectedGenres.includes(genre)
GenreIncluded(genres, g) == \E i \in 1..Len(genres) : genres[i] = g

\* the genre filter letting an entry without a genre through
GenreStageLenient(result, genres) ==
    IF Len(genres) > 0
    THEN LET Keep(movie) ==
                 TruthyStr(movie, "genre") => GenreIncluded(genres, movie.genre)
         IN  SelectSeq(result, Keep)
    ELSE result

\* if (selectedGenres.length > 0) result = result.filter(...)
GenreStage(result, genres) ==
    IF Len(genres) > 0
    THEN LET Keep(movie) ==
                 TruthyStr(movie, "genre") /\ GenreIncluded(genres, movie.genre)
         IN  SelectSeq(result, Keep)
    ELSE result

\* the rating filter letting an entry without a rating through
RatingStageLenient(result, rating) ==
    IF rating # sAll
    THEN LET Keep(movie) == Has(movie, "rating") => movie.rating = rating
         IN  SelectSeq(result, Keep)
    ELSE result

\* if (ratingFilter !== 'all') result = result.filter(...)
RatingStage(result, rating) ==
    IF rating # sAll
    THEN LET Keep(movie) == Has(movie, "rating") /\ movie.rating = rating
         IN  SelectSeq(result, Keep)
    ELSE result

\* the switch of the duration filter with medium exclusive of its ends
DurationMatchExclusive(duration, bucket) ==
    CASE bucket = "short" -> duration < 90
      [] bucket = "medium" -> duration > 90 /\ duration < 120
      [] bucket = "long" -> duration > 120
      [] OTHER -> TRUE

\* the switch of the duration filter
DurationMatch(duration, bucket) ==
    CASE bucket = "short" -> duration < 90
      [] bucket = "medium" -> duration >= 90 /\ duration <= 120
      [] bucket = "long" -> duration > 120
      [] OTHER -> TRUE

\* if (durationFilter !== 'all') result = result.filter(...)
DurationStage(result, bucket) ==
    IF bucket # "all"
    THEN LET Keep(movie) == DurationMatch(DurationOf(movie), bucket)
         IN  SelectSeq(result, Keep)
    ELSE result

\* the date range callback with exclusive bounds
DateMatchExclusive(movie, range) ==
    IF ~HasDate(movie) THEN TRUE
    ELSE IF range.from # <<>> /\ DateOfInput(range.from) >= DateOf(movie)
         THEN FALSE
    ELSE IF range.to # <<>> /\ DateOfInput(range.to) <= DateOf(movie)
         THEN FALSE
    ELSE TRUE

\* the callback of the date range filter
DateMatch(movie, range) ==
    IF ~HasDate(movie) THEN TRUE
    ELSE IF range.from # <<>> /\ DateOfInput(range.from) > DateOf(movie)
         THEN FALSE
    ELSE IF range.to # <<>> /\ DateOfInput(range.to) < DateOf(movie)
         THEN FALSE
    ELSE TRUE

\* if (dateRange.from || dateRange.to) result = result.filter(...)
DateStage(result, range) ==
    IF range.from # <<>> \/ range.to # <<>>
    THEN LET Keep(movie) == DateMatch(movie, range)
         IN  SelectSeq(result, Keep)
    ELSE result

\* the value of result right before result.sort
FilterStage(base, search, genres, rating, bucket, range) ==
    DateStage(
      DurationStage(
        RatingStage(
          GenreStage(
            SearchStage(base, search), genres), rating), bucket), range)

(***************************************************************************)
(* applyFilters: the sort                                                  *)
(***************************************************************************)
\* a.rating || ''
RatingOf(m) == IF Has(m, "rating") THEN m.rating ELSE <<>>

\* dateAdded ? new Date(dateAdded).getTime() : 0
TimeOf(m) == IF HasDate(m) THEN DateOf(m) ELSE 0

\* the comparator with the duration case ascending
CompareDurationAscending(a, b, key) ==
    CASE key = "name" -> LocaleCompare(a.name, b.name)
      [] key = "rating" -> LocaleCompare(RatingOf(b), RatingOf(a))
      [] key = "duration" -> DurationOf(a) - DurationOf(b)
      [] key = "dateAdded" -> TimeOf(b) - TimeOf(a)
      [] OTHER -> 0

\* the comparator with the dateAdded case ascending
CompareDateAscending(a, b, key) ==
    CASE key = "name" -> LocaleCompare(a.name, b.name)
      [] key = "rating" -> LocaleCompare(RatingOf(b), RatingOf(a))
      [] key = "duration" -> DurationOf(b) - DurationOf(a)
      [] key = "dateAdded" -> TimeOf(a) - TimeOf(b)
      [] OTHER -> 0

\* the comparator handed to result.sort
Compare(a, b, key) ==
    CASE key = "name" -> LocaleCompare(a.name, b.name)
      [] key = "rating" -> LocaleCompare(RatingOf(b), RatingOf(a))
      [] key = "duration" -> DurationOf(b) - DurationOf(a)
      [] key = "dateAdded" -> TimeOf(b) - TimeOf(a)
      [] OTHER -> 0

\* x put into the sorted sequence s in front of the entries it compares equal
\* to (a sort that is not stable)
RECURSIVE InsertSortedBeforeEqual(_, _, _)
InsertSortedBeforeEqual(s, x, key) ==
    IF s = <<>> THEN <<x>>
    ELSE IF Compare(Head(s), x, key) >= 0 THEN <<x>> \o s
    ELSE <<Head(s)>> \o InsertSortedBeforeEqual(Tail(s), x, key)

\* x put into the sorted sequence s behind every entry that does not
\* compare greater than it
RECURSIVE InsertSorted(_, _, _)
InsertSorted(s, x, key) ==
    IF s = <<>> THEN <<x>>
    ELSE IF Compare(Head(s), x, key) > 0 THEN <<x>> \o s
    ELSE <<Head(s)>> \o InsertSorted(Tail(s), x, key)

\* Array.prototype.sort (stable since ES2019)
RECURSIVE SortStage(_, _)
SortStage(s, key) ==
    IF s = <<>> THEN <<>>
    ELSE InsertSorted(SortStage(SubSeq(s, 1, Len(s) - 1), key), s[Len(s)], key)

\* the array applyFilters hands to setFilteredMovies
FilterAndSort(base, search, genres, rating, bucket, range, key) ==
    SortStage(FilterStage(base, search, genres, rating, bucket, range), key)

(***************************************************************************)
(* What a render derives from the state                                    *)
(***************************************************************************)
\* Math.ceil(a / b) for a >= 0, b > 0
CeilDiv(a, b) == (a + b - 1) \div b

Min(a, b) == IF a < b THEN a ELSE b
Max(a, b) == IF a > b THEN a ELSE b

\* totalPages never below 1
totalPagesAtLeastOne == Max(CeilDiv(Len(filteredMovies), itemsPerPage), 1)

totalPages == CeilDiv(Len(filteredMovies), itemsPerPage)
startIndex == (currentPage - 1) * itemsPerPage
endIndex == startIndex + itemsPerPage
\* the slice taken with its end index included
currentMoviesInclusiveEnd ==
    SubSeq(filteredMovies, Min(startIndex, Len(filteredMovies)) + 1,
           Min(endIndex + 1, Len(filteredMovies)))

\* filteredMovies.slice(startIndex, endIndex)
currentMovies ==
    SubSeq(filteredMovies, Min(startIndex, Len(filteredMovies)) + 1,
           Min(endIndex, Len(filteredMovies)))
filteredCount == Len(filteredMovies)

\* Math.round(a / b) for b > 0: halves go up
RoundDiv(a, b) == (2 * a + b) \div (2 * b)

\* movies.reduce((sum, movie) => sum + (movie.duration || 0), 0)
RECURSIVE SumDurations(_)
SumDurations(s) ==
    IF s = <<>> THEN 0
    ELSE SumDurations(SubSeq(s, 1, Len(s) - 1)) + DurationOf(s[Len(s)])

totalMovies == Len(movies)

\* the hours watched, summed over the filtered entries only
totalHoursOfFiltered == RoundDiv(SumDurations(filteredMovies), 60)

totalHours == RoundDiv(SumDurations(movies), 60)

\* the day of a Date, and its year and month in the calendar (time zone UTC)
DayOf(t) == t \div TicksPerDay
\* Date.prototype.getFullYear
FullYear(t) == 1970 + DayOf(t) \div (DaysPerMonth * MonthsPerYear)
\* the month of toLocaleDateString('en-US', { year, month: 'long' }), from 0
MonthIndex(t) == (DayOf(t) % (DaysPerMonth * MonthsPerYear)) \div DaysPerMonth

\* the key of an entry, an undated entry taken for one dated at the epoch
GroupKeyEpoch(movie, by) ==
    IF by = "month"
    THEN [kind |-> "month", year |-> FullYear(TimeOf(movie)),
          month |-> MonthIndex(TimeOf(movie))]
    ELSE IF by = "year"
    THEN [kind |-> "year", year |-> FullYear(TimeOf(movie))]
    ELSE [kind |-> "empty"]

\* the property name an entry is grouped under: 'Unknown', "March 2024",
\* "2024" (or '' when groupBy is neither month nor year)
GroupKey(movie, by) ==
    IF ~HasDate(movie) THEN [kind |-> "Unknown"]
    ELSE IF by = "month"
    THEN [kind |-> "month", year |-> FullYear(DateOf(movie)),
          month |-> MonthIndex(DateOf(movie))]
    ELSE IF by = "year"
    THEN [kind |-> "year", year |-> FullYear(DateOf(movie))]
    ELSE [kind |-> "empty"]

\* groups[key] = groups[key] || []; groups[key].push(movie), the properties
\* in the order they were created
AddToGroup(groups, key, movie) ==
    IF \E i \in 1..Len(groups) : groups[i].key = key
    THEN [i \in 1..Len(groups) |->
            IF groups[i].key = key
            THEN [groups[i] EXCEPT !.items = Append(@, movie)]
            ELSE groups[i]]
    ELSE Append(groups, [key |-> key, items |-> <<movie>>])

\* the grouping started from an object that already has an 'Unknown' property
RECURSIVE GroupAllSeeded(_, _)
GroupAllSeeded(slice, by) ==
    IF slice = <<>> THEN << [key |-> [kind |-> "Unknown"], items |-> <<>>] >>
    ELSE AddToGroup(GroupAllSeeded(SubSeq(slice, 1, Len(slice) - 1), by),
                    GroupKey(slice[Len(slice)], by), slice[Len(slice)])

\* currentMovies.forEach(movie => ...)
RECURSIVE GroupAll(_, _)
GroupAll(slice, by) ==
    IF slice = <<>> THEN <<>>
    ELSE AddToGroup(GroupAll(SubSeq(slice, 1, Len(slice) - 1), by),
                    GroupKey(slice[Len(slice)], by), slice[Len(slice)])

\* a property name that is an array index ("2024"): a year that is not negative
IsIndexKey(key) == key.kind = "year" /\ key.year >= 0

\* properties in ascending order of their year
RECURSIVE AscendingYears(_)
AscendingYears(groups) ==
    IF groups = <<>> THEN <<>>
    ELSE LET least == CHOOSE i \in 1..Len(groups) :
                         \A j \in 1..Len(groups) :
                            groups[i].key.year <= groups[j].key.year
             Others(g) == g # groups[least]
         IN  <<groups[least]>> \o AscendingYears(SelectSeq(groups, Others))

\* Object.entries: the array-index property names in ascending numeric
\* order, then the other names in the order they were created
ObjectEntries(groups) ==
    LET IsIndex(g) == IsIndexKey(g.key)
        IsName(g) == ~IsIndexKey(g.key)
    IN  AscendingYears(SelectSeq(groups, IsIndex)) \o SelectSeq(groups, IsName)

\* the grouping run over the whole filtered sequence
groupedMoviesOfAll ==
    IF groupBy = "none"
    THEN << [key |-> [kind |-> "All Movies"], items |-> filteredMovies] >>
    ELSE ObjectEntries(GroupAll(filteredMovies, groupBy))

\* Object.entries(groupedMovies), as the view enumerates it
groupedMovies ==
    IF groupBy = "none"
    THEN << [key |-> [kind |-> "All Movies"], items |-> currentMovies] >>
    ELSE ObjectEntries(GroupAll(currentMovies, groupBy))

\* Array.from(new Set(movies.map(m => m.genre).filter(Boolean)))
availableGenres ==
    { movies[i].genre : i \in { j \in 1..Len(movies) : TruthyStr(movies[j], "genre") } }

(***************************************************************************)
(* The loader                                                              *)
(***************************************************************************)
\* the i-th entry (from 1) of a history the API returns
ApiEntry(i) ==
    LET m == CHOOSE p \in Pool : p.id = ((i - 1) % Cardinality(Pool)) + 1
    IN  [m EXCEPT !.id = i]

\* histories getUserHistory resolves to
ApiHistories ==
    { [i \in 1..n |-> ApiEntry(i)] : n \in {0, 2, MaxHistory} }

\* Date.now() when the history arrives
NowChoices == { NowDay * TicksPerDay + 1 }

\* { ...movie, dateAdded: new Date(Date.now() - index * 7 days).toISOString() }
WithDate(movie, index, now) ==
    [f \in (DOMAIN movie) \cup {"dateAdded"} |->
        IF f = "dateAdded"
        THEN ToISOString(now - index * 7 * TicksPerDay)
        ELSE movie[f]]

\* history.map((movie, index) => ...)
historyWithDates(history, now) ==
    [i \in 1..Len(history) |-> WithDate(history[i], i - 1, now)]

(***************************************************************************)
(* Inputs of the handlers                                                  *)
(***************************************************************************)
SearchChoices == { sEmpty, sBlank, sQuery, sQuerySp }
RatingChoices == { sAll, sR }
DurationChoices == { "all", "short", "medium", "long" }
DateChoices == { <<>>, <<RangeDay>> }
SortChoices == { "name", "rating", "duration", "dateAdded" }
GroupChoices == { "none", "month", "year" }
PageSizeChoices == { 10, 25, 50 }

(***************************************************************************)
(* window.localStorage, and the first render of Login and of EditProfile   *)
(***************************************************************************)
\* getItem returns null for NoItem and v for <<v>>; every stored string of
\* the program is non-empty, so an item is truthy if and only if it is there
NoItem == <<>>

setItem(store, key, value) == [store EXCEPT ![key] = <<value>>]

removeItem(store, key) == [store EXCEPT ![key] = NoItem]

\* loginBlockedUntil holds the ticks from now to the stored instant (0 once
\* the instant has passed): the clock is read relative to that instant only
EmptyStorage ==
    [ loginBlockedUntil |-> NoItem,
      loginAttempts     |-> NoItem,
      registeredUser    |-> NoItem,
      userProfile       |-> NoItem,
      userAvatar        |-> NoItem ]

\* "johndoe@test.test"
ADMIN_EMAIL ==
    <<106, 111, 104, 110, 100, 111, 101, 64, 116, 101, 115, 116, 46, 116,
      101, 115, 116>>
\* "123456"
ADMIN_PASSWORD == <<49, 50, 51, 52, 53, 54>>
MAX_LOGIN_ATTEMPTS == 3
\* ticks of the clock in a second
TicksPerSecond == 2
\* seconds of a block (60 in the source)
BlockSeconds == 2
BLOCK_DURATION == BlockSeconds * TicksPerSecond

\* "u@x", "pw", "Ann Lee": the account that Register stored
sUserEmail == <<117, 64, 120>>
sUserPassword == <<112, 119>>
sUserName == <<65, 110, 110, 32, 76, 101, 101>>

NoLoginError == [msg |-> "", n |-> 0]

\* the useState initial values of Login
LoginInitial ==
    /\ loginEmail = sEmpty
    /\ loginPassword = sEmpty
    /\ loginError = NoLoginError
    /\ loginLoading = FALSE
    /\ loginAttempts = 0
    /\ isBlocked = FALSE
    /\ blockTimeRemaining = 0
    /\ loginPc = "idle"
    /\ onLoginCalled = FALSE

\* '#7c3aed' and the emoji U+1F464 of the initial formData
DefaultColor == "#7c3aed"
DefaultEmoji == <<55357, 56420>>

\* useState<ExtendedUserData>({...}), user.email from the context
InitialFormData(userEmail) ==
    [ firstName   |-> sEmpty,
      lastName    |-> sEmpty,
      email       |-> userEmail,
      password    |-> sEmpty,
      bio         |-> sEmpty,
      genre       |-> sEmpty,
      avatarColor |-> DefaultColor,
      avatarEmoji |-> DefaultEmoji ]

\* the useState initial values of EditProfile
EditInitial(userEmail) ==
    /\ formData = InitialFormData(userEmail)
    /\ avatarImage = NoItem
    /\ showAvatarOptions = FALSE
    /\ showDeleteConfirm = FALSE
    /\ hasUnsavedChanges = FALSE
    /\ successMessage = ""
    /\ errorMessage = ""
    /\ editLoading = FALSE
    /\ editPc = "mount"
    /\ unsavedEffectPending = FALSE
    /\ userEdited = FALSE
    /\ profileLoaded = FALSE
    /\ confirmAsked = FALSE
    /\ avatarAtMount = NoItem

\* Login and EditProfile as History finds them
OutsideHistoryInitial ==
    /\ LoginInitial
    /\ EditInitial(sEmpty)
    /\ localStorage = EmptyStorage

(***************************************************************************)
(* History: state after the first render                                   *)
(***************************************************************************)
InitCriteria ==
    /\ searchQuery = sEmpty
    /\ selectedGenres = <<>>
    /\ ratingFilter = sAll
    /\ durationFilter = "all"
    /\ yearFilter = "all"
    /\ dateRange = [from |-> <<>>, to |-> <<>>]
    /\ sortBy = "name"
    /\ groupBy = "none"
    /\ itemsPerPage = 10
    /\ currentPage = 1

Init ==
    /\ OutsideHistoryInitial
    /\ movies = <<>>
    /\ filteredMovies = <<>>
    /\ loading = TRUE
    /\ error = ""
    /\ InitCriteria
    /\ loadPc = "mount"
    /\ effectPending = TRUE
    /\ changedFrom = 0

\* the handlers exist once the list is rendered, and React runs a pending
\* effect before it handles the next event
Ready == ~loading /\ ~effectPending

criteria == <<searchQuery, selectedGenres, ratingFilter, durationFilter,
              yearFilter, dateRange>>

\* applyFilters without the reset of the page
ApplyFiltersKeepPage ==
    /\ filteredMovies' = FilterAndSort(movies, searchQuery, selectedGenres,
                              ratingFilter, durationFilter, dateRange, sortBy)
    /\ UNCHANGED currentPage

\* applyFilters adding its result to the stored sequence
ApplyFiltersAccumulate ==
    /\ filteredMovies' =
          filteredMovies \o FilterAndSort(movies, searchQuery, selectedGenres,
                              ratingFilter, durationFilter, dateRange, sortBy)
    /\ currentPage' = 1

\* applyFilters: setFilteredMovies(result); setCurrentPage(1)
ApplyFilters ==
    /\ filteredMovies' = FilterAndSort(movies, searchQuery, selectedGenres,
                              ratingFilter, durationFilter, dateRange, sortBy)
    /\ currentPage' = 1

\* loadHistory returning without setLoading(false) when no user is logged in
MountEffectsKeepsLoading ==
    /\ UNCHANGED outsideHistory
    /\ loadPc = "mount"
    /\ \E userId \in { "none", "u1" } :
          IF userId = "none"
          THEN /\ error' = "User not logged in"
               /\ loading' = TRUE
               /\ loadPc' = "done"
          ELSE /\ loading' = TRUE
               /\ loadPc' = "awaiting"
               /\ UNCHANGED error
    /\ ApplyFilters
    /\ effectPending' = FALSE
    /\ UNCHANGED <<movies, criteria, sortBy, groupBy, itemsPerPage, changedFrom>>

\* the two effects of the mount: loadHistory up to its await, applyFilters
MountEffects ==
    /\ UNCHANGED outsideHistory
    /\ loadPc = "mount"
    /\ \E userId \in { "none", "u1" } :
          IF userId = "none"
          THEN /\ error' = "User not logged in"
               /\ loading' = FALSE
               /\ loadPc' = "done"
          ELSE /\ loading' = TRUE
               /\ loadPc' = "awaiting"
               /\ UNCHANGED error
    /\ ApplyFilters
    /\ effectPending' = FALSE
    /\ UNCHANGED <<movies, criteria, sortBy, groupBy, itemsPerPage, changedFrom>>

\* getUserHistory resolves
LoadSuccess ==
    /\ UNCHANGED outsideHistory
    /\ loadPc = "awaiting"
    /\ \E history \in ApiHistories, now \in NowChoices :
          movies' = historyWithDates(history, now)
    /\ error' = ""
    /\ loading' = FALSE
    /\ loadPc' = "done"
    /\ effectPending' = TRUE
    /\ changedFrom' = 0
    /\ UNCHANGED <<filteredMovies, criteria, sortBy, groupBy, itemsPerPage,
                   currentPage>>

\* a rejected getUserHistory answered by another attempt
LoadFailureRetry ==
    /\ UNCHANGED outsideHistory
    /\ loadPc = "awaiting"
    /\ error' = "Failed to load history. Please try again."
    /\ loading' = TRUE
    /\ loadPc' = "awaiting"
    /\ UNCHANGED <<movies, filteredMovies, criteria, sortBy, groupBy,
                   itemsPerPage, currentPage, effectPending, changedFrom>>

\* getUserHistory rejects
LoadFailure ==
    /\ UNCHANGED outsideHistory
    /\ loadPc = "awaiting"
    /\ error' = "Failed to load history. Please try again."
    /\ loading' = FALSE
    /\ loadPc' = "done"
    /\ UNCHANGED <<movies, filteredMovies, criteria, sortBy, groupBy,
                   itemsPerPage, currentPage, effectPending, changedFrom>>

\* applyFilters with `let result = movies` for the copy: when no filter
\* replaces result, the sort reorders the base itself
ApplyFiltersEffectInPlace ==
    /\ UNCHANGED outsideHistory
    /\ effectPending
    /\ loadPc # "mount"
    /\ ApplyFilters
    /\ effectPending' = FALSE
    /\ movies' = IF /\ Trim(searchQuery) = sEmpty
                    /\ selectedGenres = <<>>
                    /\ ratingFilter = sAll
                    /\ durationFilter = "all"
                    /\ dateRange.from = <<>>
                    /\ dateRange.to = <<>>
                 THEN SortStage(movies, sortBy)
                 ELSE movies
    /\ UNCHANGED <<loading, error, criteria, sortBy, groupBy,
                   itemsPerPage, loadPc, changedFrom>>

\* useEffect(() => applyFilters(), [movies, searchQuery, ...])
ApplyFiltersEffect ==
    /\ UNCHANGED outsideHistory
    /\ effectPending
    /\ loadPc # "mount"
    /\ ApplyFilters
    /\ effectPending' = FALSE
    /\ UNCHANGED <<movies, loading, error, criteria, sortBy, groupBy,
                   itemsPerPage, loadPc, changedFrom>>

\* what every handler that changes a dependency of the effect leaves alone
FilterFrame ==
    /\ UNCHANGED outsideHistory
    /\ effectPending' = TRUE
    /\ changedFrom' = currentPage
    /\ UNCHANGED <<movies, filteredMovies, loading, error, groupBy,
                   itemsPerPage, currentPage, loadPc>>

\* onChange of the search input, and the clear button
SetSearchQuery ==
    /\ Ready
    /\ \E q \in SearchChoices \ { searchQuery } : searchQuery' = q
    /\ FilterFrame
    /\ UNCHANGED <<selectedGenres, ratingFilter, durationFilter, yearFilter,
                   dateRange, sortBy>>

\* prev.includes(genre) ? prev.filter(g => g !== genre) : [...prev, genre]
Toggled(prev, genre) ==
    IF GenreIncluded(prev, genre)
    THEN LET Other(g) == g # genre IN SelectSeq(prev, Other)
    ELSE Append(prev, genre)

toggleGenre ==
    /\ Ready
    /\ \E genre \in availableGenres :
          selectedGenres' = Toggled(selectedGenres, genre)
    /\ FilterFrame
    /\ UNCHANGED <<searchQuery, ratingFilter, durationFilter, yearFilter,
                   dateRange, sortBy>>

SetRatingFilter ==
    /\ Ready
    /\ \E r \in RatingChoices \ { ratingFilter } : ratingFilter' = r
    /\ FilterFrame
    /\ UNCHANGED <<searchQuery, selectedGenres, durationFilter, yearFilter,
                   dateRange, sortBy>>

SetDurationFilter ==
    /\ Ready
    /\ \E d \in DurationChoices \ { durationFilter } : durationFilter' = d
    /\ FilterFrame
    /\ UNCHANGED <<searchQuery, selectedGenres, ratingFilter, yearFilter,
                   dateRange, sortBy>>

\* setDateRange(prev => ({ ...prev, from: e.target.value }))
SetDateFrom ==
    /\ Ready
    /\ \E v \in DateChoices \ { dateRange.from } :
          dateRange' = [dateRange EXCEPT !.from = v]
    /\ FilterFrame
    /\ UNCHANGED <<searchQuery, selectedGenres, ratingFilter, durationFilter,
                   yearFilter, sortBy>>

\* setDateRange(prev => ({ ...prev, to: e.target.value }))
SetDateTo ==
    /\ Ready
    /\ \E v \in DateChoices \ { dateRange.to } :
          dateRange' = [dateRange EXCEPT !.to = v]
    /\ FilterFrame
    /\ UNCHANGED <<searchQuery, selectedGenres, ratingFilter, durationFilter,
                   yearFilter, sortBy>>

\* resetFilters taking the sort key back to its default as well
resetFiltersAndSort ==
    /\ Ready
    /\ searchQuery' = sEmpty
    /\ selectedGenres' = <<>>
    /\ ratingFilter' = sAll
    /\ durationFilter' = "all"
    /\ yearFilter' = "all"
    /\ dateRange' = [from |-> <<>>, to |-> <<>>]
    /\ FilterFrame
    /\ sortBy' = "name"

\* resetFilters: the new array and the new object always re-run the effect
resetFilters ==
    /\ Ready
    /\ searchQuery' = sEmpty
    /\ selectedGenres' = <<>>
    /\ ratingFilter' = sAll
    /\ durationFilter' = "all"
    /\ yearFilter' = "all"
    /\ dateRange' = [from |-> <<>>, to |-> <<>>]
    /\ FilterFrame
    /\ UNCHANGED sortBy

\* sortBy left out of the dependency list of the effect
SetSortByNoEffect ==
    /\ UNCHANGED outsideHistory
    /\ Ready
    /\ \E k \in SortChoices \ { sortBy } : sortBy' = k
    /\ changedFrom' = currentPage
    /\ UNCHANGED <<movies, filteredMovies, loading, error, groupBy,
                   itemsPerPage, currentPage, loadPc, effectPending, criteria>>

SetSortBy ==
    /\ Ready
    /\ \E k \in SortChoices \ { sortBy } : sortBy' = k
    /\ FilterFrame
    /\ UNCHANGED criteria

\* the group-by select with groupBy among the dependencies of the effect
SetGroupByRefilters ==
    /\ UNCHANGED outsideHistory
    /\ Ready
    /\ \E k \in GroupChoices \ { groupBy } : groupBy' = k
    /\ changedFrom' = 0
    /\ effectPending' = TRUE
    /\ UNCHANGED <<movies, filteredMovies, loading, error, criteria, sortBy,
                   itemsPerPage, currentPage, loadPc>>

\* the group-by select: groupBy is no dependency of the effect
SetGroupBy ==
    /\ UNCHANGED outsideHistory
    /\ Ready
    /\ \E k \in GroupChoices \ { groupBy } : groupBy' = k
    /\ changedFrom' = 0
    /\ UNCHANGED <<movies, filteredMovies, loading, error, criteria, sortBy,
                   itemsPerPage, currentPage, loadPc, effectPending>>

\* the per-page select without setCurrentPage(1)
SetItemsPerPageKeepPage ==
    /\ UNCHANGED outsideHistory
    /\ Ready
    /\ \E n \in PageSizeChoices \ { itemsPerPage } : itemsPerPage' = n
    /\ changedFrom' = 0
    /\ UNCHANGED <<movies, filteredMovies, loading, error, criteria, sortBy,
                   groupBy, loadPc, effectPending, currentPage>>

\* the per-page select: setItemsPerPage(n); setCurrentPage(1)
SetItemsPerPage ==
    /\ UNCHANGED outsideHistory
    /\ Ready
    /\ \E n \in PageSizeChoices \ { itemsPerPage } : itemsPerPage' = n
    /\ currentPage' = 1
    /\ changedFrom' = currentPage
    /\ UNCHANGED <<movies, filteredMovies, loading, error, criteria, sortBy,
                   groupBy, loadPc, effectPending>>

\* the Previous button: rendered when totalPages > 1, disabled on page 1
PreviousPage ==
    /\ UNCHANGED outsideHistory
    /\ Ready
    /\ totalPages > 1
    /\ currentPage # 1
    /\ currentPage' = Max(1, currentPage - 1)
    /\ changedFrom' = 0
    /\ UNCHANGED <<movies, filteredMovies, loading, error, criteria, sortBy,
                   groupBy, itemsPerPage, loadPc, effectPending>>

\* the Next button with currentPage among the dependencies of the effect
NextPageRefilters ==
    /\ UNCHANGED outsideHistory
    /\ Ready
    /\ totalPages > 1
    /\ currentPage # totalPages
    /\ currentPage' = Min(totalPages, currentPage + 1)
    /\ changedFrom' = 0
    /\ effectPending' = TRUE
    /\ UNCHANGED <<movies, filteredMovies, loading, error, criteria, sortBy,
                   groupBy, itemsPerPage, loadPc>>

\* the Next button: rendered when totalPages > 1, disabled on the last page
NextPage ==
    /\ UNCHANGED outsideHistory
    /\ Ready
    /\ totalPages > 1
    /\ currentPage # totalPages
    /\ currentPage' = Min(totalPages, currentPage + 1)
    /\ changedFrom' = 0
    /\ UNCHANGED <<movies, filteredMovies, loading, error, criteria, sortBy,
                   groupBy, itemsPerPage, loadPc, effectPending>>

FilterHandlers ==
    \/ SetSearchQuery
    \/ toggleGenre
    \/ SetRatingFilter
    \/ SetDurationFilter
    \/ SetDateFrom
    \/ SetDateTo
    \/ resetFilters

Next ==
    \/ MountEffects
    \/ LoadSuccess
    \/ LoadFailure
    \/ ApplyFiltersEffect
    \/ FilterHandlers
    \/ SetSortBy
    \/ SetGroupBy
    \/ SetItemsPerPage
    \/ PreviousPage
    \/ NextPage

Spec == Init /\ [][Next]_vars

\* React runs the effects of the mount, and the request of loadHistory settles
SpecLoadSettles ==
    /\ Spec
    /\ WF_vars(MountEffects)
    /\ WF_vars(LoadSuccess \/ LoadFailure)

(***************************************************************************)
(* The filter stage on arbitrary base collections                          *)
(***************************************************************************)
\* the view right after a load delivered the base collection
InitLoaded ==
    /\ OutsideHistoryInitial
    /\ movies \in Bases
    /\ filteredMovies = <<>>
    /\ loading = FALSE
    /\ error = ""
    /\ InitCriteria
    /\ loadPc = "done"
    /\ effectPending = TRUE
    /\ changedFrom = 0

NextFilter == ApplyFiltersEffect \/ FilterHandlers

SpecFilter == InitLoaded /\ [][NextFilter]_vars

(***************************************************************************)
(* The sort on arbitrary base collections                                  *)
(***************************************************************************)
\* the entries of Pool, one entry dated before the epoch and one at the epoch
SortPool ==
    Pool \cup { [id |-> 7, name |-> sbc, rating |-> sR,
                 dateAdded |-> ToISOString(0 - 1)],
                [id |-> 8, name |-> sC, duration |-> 89,
                 dateAdded |-> ToISOString(0)] }

\* sequences of entries of SortPool, at most n long
RECURSIVE SortSeqsUpTo(_)
SortSeqsUpTo(n) ==
    IF n = 0 THEN { <<>> }
    ELSE LET shorter == SortSeqsUpTo(n - 1)
         IN  shorter \cup
             { Append(s, m) : s \in { t \in shorter : Len(t) = n - 1 },
                              m \in SortPool }

SortBases == { s \in SortSeqsUpTo(MaxLen) : Distinct(s) }

\* the view right after a load delivered the base collection
InitSort ==
    /\ OutsideHistoryInitial
    /\ movies \in SortBases
    /\ filteredMovies = <<>>
    /\ loading = FALSE
    /\ error = ""
    /\ InitCriteria
    /\ loadPc = "done"
    /\ effectPending = TRUE
    /\ changedFrom = 0

NextSort == ApplyFiltersEffect \/ SetSortBy

SpecSort == InitSort /\ [][NextSort]_vars

(***************************************************************************)
(* Pagination and grouping on arbitrary base collections and page sizes    *)
(***************************************************************************)
SmallPageSizes == { 1, 2 }

\* the view right after a load delivered the base collection
InitPaging ==
    /\ OutsideHistoryInitial
    /\ movies \in SortBases
    /\ filteredMovies = <<>>
    /\ loading = FALSE
    /\ error = ""
    /\ searchQuery = sEmpty
    /\ selectedGenres = <<>>
    /\ ratingFilter = sAll
    /\ durationFilter = "all"
    /\ yearFilter = "all"
    /\ dateRange = [from |-> <<>>, to |-> <<>>]
    /\ sortBy = "name"
    /\ groupBy = "none"
    /\ itemsPerPage \in SmallPageSizes
    /\ currentPage = 1
    /\ loadPc = "done"
    /\ effectPending = TRUE
    /\ changedFrom = 0

NextPaging ==
    \/ ApplyFiltersEffect
    \/ SetRatingFilter
    \/ SetSortBy
    \/ SetGroupBy
    \/ PreviousPage
    \/ NextPage

SpecPaging == InitPaging /\ [][NextPaging]_vars

(***************************************************************************)
(* Login                                                                   *)
(***************************************************************************)
\* what a step of Login leaves alone
outsideLogin == <<historyVars, editVars>>

EmailChoices == { sEmpty, ADMIN_EMAIL, sUserEmail }
PasswordChoices == { sEmpty, ADMIN_PASSWORD, sUserPassword }

\* the account that Register stored, or none
RegisteredChoices ==
    { NoItem,
      <<[email |-> sUserEmail, password |-> sUserPassword,
         name |-> sUserName]>> }

\* Login after its first mount in a browser without login keys
InitLogin ==
    /\ LoginInitial
    /\ \E registeredUser \in RegisteredChoices :
          localStorage = [EmptyStorage EXCEPT !.registeredUser = registeredUser]
    /\ movies = <<>>
    /\ filteredMovies = <<>>
    /\ loading = TRUE
    /\ error = ""
    /\ InitCriteria
    /\ loadPc = "mount"
    /\ effectPending = TRUE
    /\ changedFrom = 0
    /\ EditInitial(sEmpty)

\* now < blockedTime for the stored loginBlockedUntil
BlockAhead(store) ==
    /\ store.loginBlockedUntil # NoItem
    /\ store.loginBlockedUntil[1] > 0

\* the clock moving on by ticks
Elapsed(store, ticks) ==
    IF store.loginBlockedUntil # NoItem
    THEN setItem(store, "loginBlockedUntil",
                 Max(0, store.loginBlockedUntil[1] - ticks))
    ELSE store

\* Login is mounted again: the first render and the effect of the mount
\* (no request is open when the page is left)
LoginMount ==
    /\ loginPc \in { "idle", "away" }
    /\ LET blocked == BlockAhead(localStorage)
           store == IF localStorage.loginBlockedUntil # NoItem /\ ~blocked
                    THEN removeItem(removeItem(localStorage,
                                      "loginBlockedUntil"), "loginAttempts")
                    ELSE localStorage
           attempts == store.loginAttempts
       IN  /\ isBlocked' = blocked
           /\ blockTimeRemaining' =
                 IF blocked
                 THEN CeilDiv(localStorage.loginBlockedUntil[1], TicksPerSecond)
                 ELSE 0
           /\ localStorage' = store
           /\ loginAttempts' = IF attempts # NoItem THEN attempts[1] ELSE 0
    /\ loginEmail' = sEmpty
    /\ loginPassword' = sEmpty
    /\ loginError' = NoLoginError
    /\ loginLoading' = FALSE
    /\ loginPc' = "idle"
    /\ onLoginCalled' = FALSE
    /\ UNCHANGED outsideLogin

\* a tick of the clock while a block is stored
TimePasses ==
    /\ BlockAhead(localStorage)
    /\ localStorage' = Elapsed(localStorage, 1)
    /\ UNCHANGED <<loginVars, outsideLogin>>

\* the countdown ending the block only below one second
TimerFiresBelowOne ==
    /\ loginPc # "away"
    /\ isBlocked
    /\ blockTimeRemaining > 0
    /\ blockTimeRemaining' = blockTimeRemaining - 1
    /\ IF blockTimeRemaining < 1
       THEN /\ isBlocked' = FALSE
            /\ loginAttempts' = 0
            /\ localStorage' = removeItem(removeItem(localStorage,
                                    "loginBlockedUntil"), "loginAttempts")
       ELSE /\ localStorage' = Elapsed(localStorage, TicksPerSecond)
            /\ UNCHANGED <<isBlocked, loginAttempts>>
    /\ UNCHANGED <<loginEmail, loginPassword, loginError, loginLoading,
                   loginPc, onLoginCalled, outsideLogin>>

\* the timeout of the countdown effect, a second after it was set
TimerFires ==
    /\ loginPc # "away"
    /\ isBlocked
    /\ blockTimeRemaining > 0
    /\ blockTimeRemaining' = blockTimeRemaining - 1
    /\ IF blockTimeRemaining <= 1
       THEN /\ isBlocked' = FALSE
            /\ loginAttempts' = 0
            /\ localStorage' = removeItem(removeItem(localStorage,
                                    "loginBlockedUntil"), "loginAttempts")
       ELSE /\ localStorage' = Elapsed(localStorage, TicksPerSecond)
            /\ UNCHANGED <<isBlocked, loginAttempts>>
    /\ UNCHANGED <<loginEmail, loginPassword, loginError, loginLoading,
                   loginPc, onLoginCalled, outsideLogin>>

\* the inputs are disabled while loading and while blocked
SetEmail ==
    /\ loginPc = "idle"
    /\ ~isBlocked
    /\ \E v \in EmailChoices \ { loginEmail } : loginEmail' = v
    /\ UNCHANGED <<loginPassword, loginError, loginLoading, loginAttempts,
                   isBlocked, blockTimeRemaining, loginPc, onLoginCalled,
                   localStorage, outsideLogin>>

SetPassword ==
    /\ loginPc = "idle"
    /\ ~isBlocked
    /\ \E v \in PasswordChoices \ { loginPassword } : loginPassword' = v
    /\ UNCHANGED <<loginEmail, loginError, loginLoading, loginAttempts,
                   isBlocked, blockTimeRemaining, loginPc, onLoginCalled,
                   localStorage, outsideLogin>>

IsAdmin == loginEmail = ADMIN_EMAIL /\ loginPassword = ADMIN_PASSWORD

IsRegistered ==
    /\ localStorage.registeredUser # NoItem
    /\ localStorage.registeredUser[1].email = loginEmail
    /\ localStorage.registeredUser[1].password = loginPassword

\* if (!loginSuccess) { ... }: the attempt is counted, the third one blocks
FailedAttempt ==
    LET newAttempts == loginAttempts + 1
        counted == setItem(localStorage, "loginAttempts", newAttempts)
    IN  /\ loginAttempts' = newAttempts
        /\ IF newAttempts >= MAX_LOGIN_ATTEMPTS
           THEN /\ localStorage' =
                     setItem(counted, "loginBlockedUntil", BLOCK_DURATION)
                /\ isBlocked' = TRUE
                /\ blockTimeRemaining' =
                     CeilDiv(BLOCK_DURATION, TicksPerSecond)
                /\ loginError' =
                     [msg |-> "Too many failed attempts. Account temporarily blocked for 1 minute.",
                      n |-> 0]
           ELSE /\ localStorage' = counted
                /\ loginError' =
                     [msg |-> "Invalid email or password. n attempts remaining.",
                      n |-> MAX_LOGIN_ATTEMPTS - newAttempts]
                /\ UNCHANGED <<isBlocked, blockTimeRemaining>>

\* handleSubmit without its check of isBlocked
handleSubmitUnguarded ==
    /\ loginPc = "idle"
    /\ IF loginEmail = sEmpty \/ loginPassword = sEmpty
       THEN /\ loginError' = [msg |-> "Please fill in all fields.", n |-> 0]
            /\ UNCHANGED <<loginLoading, loginAttempts, isBlocked,
                           blockTimeRemaining, loginPc, localStorage>>
       ELSE IF IsAdmin \/ IsRegistered
       THEN /\ loginError' = NoLoginError
            /\ loginLoading' = TRUE
            /\ loginPc' = IF IsAdmin THEN "awaitingAdmin" ELSE "awaitingUser"
            /\ UNCHANGED <<loginAttempts, isBlocked, blockTimeRemaining,
                           localStorage>>
       ELSE /\ FailedAttempt
            /\ UNCHANGED <<loginLoading, loginPc>>
    /\ UNCHANGED <<loginEmail, loginPassword, onLoginCalled, outsideLogin>>

\* handleSubmit up to its first await or to its end; the button is disabled
\* while loading, the check of isBlocked is the handler's own
handleSubmit ==
    /\ loginPc = "idle"
    /\ IF isBlocked
       THEN /\ loginError' =
                 [msg |-> "Too many failed attempts. Please wait n seconds.",
                  n |-> blockTimeRemaining]
            /\ UNCHANGED <<loginLoading, loginAttempts, isBlocked,
                           blockTimeRemaining, loginPc, localStorage>>
       ELSE IF loginEmail = sEmpty \/ loginPassword = sEmpty
       THEN /\ loginError' = [msg |-> "Please fill in all fields.", n |-> 0]
            /\ UNCHANGED <<loginLoading, loginAttempts, isBlocked,
                           blockTimeRemaining, loginPc, localStorage>>
       ELSE IF IsAdmin \/ IsRegistered
       THEN /\ loginError' = NoLoginError
            /\ loginLoading' = TRUE
            /\ loginPc' = IF IsAdmin THEN "awaitingAdmin" ELSE "awaitingUser"
            /\ UNCHANGED <<loginAttempts, isBlocked, blockTimeRemaining,
                           localStorage>>
       ELSE /\ FailedAttempt
            /\ UNCHANGED <<loginLoading, loginPc>>
    /\ UNCHANGED <<loginEmail, loginPassword, onLoginCalled, outsideLogin>>

\* onLogin(email, password); navigate(...); the keys of the attempts go
LoginSucceeds ==
    /\ onLoginCalled' = TRUE
    /\ localStorage' = removeItem(removeItem(localStorage, "loginAttempts"),
                                  "loginBlockedUntil")
    /\ loginAttempts' = 0
    /\ loginLoading' = FALSE
    /\ loginPc' = "away"
    /\ UNCHANGED <<loginEmail, loginPassword, loginError, isBlocked,
                   blockTimeRemaining, outsideLogin>>

\* createOrGetUser resolves for the admin account
AdminResolved ==
    /\ loginPc = "awaitingAdmin"
    /\ LoginSucceeds

\* createOrGetUser rejects for the admin account: no attempt is counted
AdminRejected ==
    /\ loginPc = "awaitingAdmin"
    /\ loginError' =
          [msg |-> "Failed to connect to server. Please make sure the backend is running.",
           n |-> 0]
    /\ loginLoading' = FALSE
    /\ loginPc' = "idle"
    /\ UNCHANGED <<loginEmail, loginPassword, loginAttempts, isBlocked,
                   blockTimeRemaining, onLoginCalled, localStorage,
                   outsideLogin>>

\* createOrGetUser settles for the registered account: both ways log in
UserSettled ==
    /\ loginPc = "awaitingUser"
    /\ LoginSucceeds

NextLogin ==
    \/ LoginMount
    \/ TimePasses
    \/ TimerFires
    \/ SetEmail
    \/ SetPassword
    \/ handleSubmit
    \/ AdminResolved
    \/ AdminRejected
    \/ UserSettled

SpecLogin == InitLogin /\ [][NextLogin]_vars

\* the countdown is mounted with the page and its timeout keeps firing
SpecLoginTimer == SpecLogin /\ WF_vars(TimerFires)

(***************************************************************************)
(* EditProfile                                                             *)
(*                                                                         *)
(* avatarImage is NoItem for null and <<data>> for an image.  The history  *)
(* variables userEdited, profileLoaded, confirmAsked and avatarAtMount     *)
(* record what the visit of the page has seen.  The page is edited while   *)
(* no request is open and before a save has succeeded.                     *)
(***************************************************************************)
\* what a step of EditProfile leaves alone
outsideEdit == <<historyVars, loginVars>>

\* "@"
sAt == <<64>>
\* the emoji U+1F60A
OtherEmoji == <<55357, 56842>>

ColorChoices == { DefaultColor, "#3b82f6" }
EmojiChoices == { DefaultEmoji, OtherEmoji }

\* the values typed into the inputs
FieldChoices ==
    [ firstName |-> { sEmpty, sBlank, sAb },
      lastName  |-> { sEmpty, sc },
      email     |-> { sc, sUserEmail },
      bio       |-> { sEmpty, sbc },
      genre     |-> { sEmpty, sZed } ]

\* the files of the file input: at the size limit, above it, and small
FileChoices ==
    { [size |-> 5 * 1024 * 1024, data |-> "img1"],
      [size |-> 5 * 1024 * 1024 + 1, data |-> "img2"],
      [size |-> 1, data |-> "img2"] }

\* the answers of getUserProfile
ApiProfiles ==
    { [firstName |-> sAb, lastName |-> sc, email |-> sUserEmail],
      [firstName |-> sEmpty, lastName |-> sc, email |-> sUserEmail] }

\* the userProfile item a former save left, or none
StoredProfileChoices ==
    { NoItem,
      <<[bio |-> sbc, genre |-> sEmpty, avatarColor |-> "#3b82f6",
         avatarEmoji |-> OtherEmoji]>> }

StoredAvatarChoices == { NoItem, <<"img1">> }

\* EditProfile after its first render
InitEdit ==
    /\ \E userEmail \in { sEmpty, sUserEmail } : EditInitial(userEmail)
    /\ \E registeredUser \in RegisteredChoices,
          userProfile \in StoredProfileChoices,
          userAvatar \in StoredAvatarChoices :
          localStorage = [EmptyStorage EXCEPT
                            !.registeredUser = registeredUser,
                            !.userProfile = userProfile,
                            !.userAvatar = userAvatar]
    /\ LoginInitial
    /\ movies = <<>>
    /\ filteredMovies = <<>>
    /\ loading = TRUE
    /\ error = ""
    /\ InitCriteria
    /\ loadPc = "mount"
    /\ effectPending = TRUE
    /\ changedFrom = 0

\* the handlers of the form act between the requests, after pending effects
EditReady == editPc = "ready" /\ ~unsavedEffectPending

\* the two effects of the mount: loadUserProfile up to its await, and the
\* effect on [formData, avatarImage]
EditMount ==
    /\ editPc = "mount"
    /\ \E userId \in { "none", "u1" } :
          IF userId = "none"
          THEN /\ errorMessage' = "User not logged in"
               /\ editPc' = "ready"
               /\ UNCHANGED editLoading
          ELSE /\ editLoading' = TRUE
               /\ editPc' = "loading"
               /\ UNCHANGED errorMessage
    /\ hasUnsavedChanges' = TRUE
    /\ avatarAtMount' = localStorage.userAvatar
    /\ UNCHANGED <<formData, avatarImage, showAvatarOptions,
                   showDeleteConfirm, successMessage, unsavedEffectPending,
                   userEdited, profileLoaded, confirmAsked, localStorage,
                   outsideEdit>>

\* getUserProfile resolves: the rest of the try block and the finally
EditLoadSuccess ==
    /\ editPc = "loading"
    /\ \E profile \in ApiProfiles :
          LET savedProfile == localStorage.userProfile
              extendedData ==
                  IF savedProfile # NoItem
                  THEN [ bio |-> savedProfile[1].bio,
                         genre |-> savedProfile[1].genre,
                         avatarColor |->
                            IF savedProfile[1].avatarColor # ""
                            THEN savedProfile[1].avatarColor
                            ELSE DefaultColor,
                         avatarEmoji |->
                            IF savedProfile[1].avatarEmoji # <<>>
                            THEN savedProfile[1].avatarEmoji
                            ELSE DefaultEmoji ]
                  ELSE [ bio |-> sEmpty, genre |-> sEmpty,
                         avatarColor |-> DefaultColor,
                         avatarEmoji |-> DefaultEmoji ]
              registeredUser == localStorage.registeredUser
              password == IF registeredUser # NoItem
                          THEN registeredUser[1].password
                          ELSE sEmpty
          IN  formData' = [ firstName   |-> profile.firstName,
                            lastName    |-> profile.lastName,
                            email       |-> profile.email,
                            password    |-> password,
                            bio         |-> extendedData.bio,
                            genre       |-> extendedData.genre,
                            avatarColor |-> extendedData.avatarColor,
                            avatarEmoji |-> extendedData.avatarEmoji ]
    /\ avatarImage' = IF localStorage.userAvatar # NoItem
                      THEN localStorage.userAvatar
                      ELSE avatarImage
    /\ hasUnsavedChanges' = FALSE
    /\ editLoading' = FALSE
    /\ editPc' = "ready"
    /\ unsavedEffectPending' = TRUE
    /\ profileLoaded' = TRUE
    /\ UNCHANGED <<showAvatarOptions, showDeleteConfirm, successMessage,
                   errorMessage, userEdited, confirmAsked, avatarAtMount,
                   localStorage, outsideEdit>>

\* getUserProfile rejects
EditLoadFailure ==
    /\ editPc = "loading"
    /\ errorMessage' = "Failed to load profile from database."
    /\ editLoading' = FALSE
    /\ editPc' = "ready"
    /\ UNCHANGED <<formData, avatarImage, showAvatarOptions,
                   showDeleteConfirm, hasUnsavedChanges, successMessage,
                   unsavedEffectPending, userEdited, profileLoaded,
                   confirmAsked, avatarAtMount, localStorage, outsideEdit>>

\* useEffect(() => setHasUnsavedChanges(true), [formData, avatarImage])
UnsavedEffect ==
    /\ unsavedEffectPending
    /\ editPc # "mount"
    /\ hasUnsavedChanges' = TRUE
    /\ unsavedEffectPending' = FALSE
    /\ UNCHANGED <<formData, avatarImage, showAvatarOptions,
                   showDeleteConfirm, successMessage, errorMessage,
                   editLoading, editPc, userEdited, profileLoaded,
                   confirmAsked, avatarAtMount, localStorage, outsideEdit>>

\* updateField: a new formData object, and both messages cleared
updateField(key, value) ==
    /\ formData' = [formData EXCEPT ![key] = value]
    /\ successMessage' = ""
    /\ errorMessage' = ""
    /\ unsavedEffectPending' = TRUE
    /\ userEdited' = TRUE

\* onChange of the five inputs
SetField ==
    /\ EditReady
    /\ \E key \in DOMAIN FieldChoices :
          \E value \in FieldChoices[key] \ { formData[key] } :
             updateField(key, value)
    /\ UNCHANGED <<avatarImage, showAvatarOptions, showDeleteConfirm,
                   hasUnsavedChanges, editLoading, editPc, profileLoaded,
                   confirmAsked, avatarAtMount, localStorage, outsideEdit>>

\* setShowAvatarOptions(!showAvatarOptions)
ToggleAvatarOptions ==
    /\ EditReady
    /\ showAvatarOptions' = ~showAvatarOptions
    /\ UNCHANGED <<formData, avatarImage, showDeleteConfirm,
                   hasUnsavedChanges, successMessage, errorMessage,
                   editLoading, editPc, unsavedEffectPending, userEdited,
                   profileLoaded, confirmAsked, avatarAtMount, localStorage,
                   outsideEdit>>

\* a colour button: updateField('avatarColor', ...); setAvatarImage(null)
ChooseColor ==
    /\ EditReady
    /\ showAvatarOptions
    /\ \E color \in ColorChoices : updateField("avatarColor", color)
    /\ avatarImage' = NoItem
    /\ UNCHANGED <<showAvatarOptions, showDeleteConfirm, hasUnsavedChanges,
                   editLoading, editPc, profileLoaded, confirmAsked,
                   avatarAtMount, localStorage, outsideEdit>>

\* an emoji button: updateField('avatarEmoji', ...); setAvatarImage(null)
ChooseEmoji ==
    /\ EditReady
    /\ showAvatarOptions
    /\ \E emoji \in EmojiChoices : updateField("avatarEmoji", emoji)
    /\ avatarImage' = NoItem
    /\ UNCHANGED <<showAvatarOptions, showDeleteConfirm, hasUnsavedChanges,
                   editLoading, editPc, profileLoaded, confirmAsked,
                   avatarAtMount, localStorage, outsideEdit>>

\* handleAvatarUpload and, for a file within the limit, reader.onload
handleAvatarUpload ==
    /\ EditReady
    /\ showAvatarOptions
    /\ \E file \in FileChoices :
          IF file.size > 5 * 1024 * 1024
          THEN /\ errorMessage' = "Image must be smaller than 5MB"
               /\ UNCHANGED <<avatarImage, showAvatarOptions,
                              unsavedEffectPending, userEdited>>
          ELSE /\ avatarImage' = <<file.data>>
               /\ showAvatarOptions' = FALSE
               /\ unsavedEffectPending' = (avatarImage # <<file.data>>)
               /\ userEdited' = TRUE
               /\ UNCHANGED errorMessage
    /\ UNCHANGED <<formData, showDeleteConfirm, hasUnsavedChanges,
                   successMessage, editLoading, editPc, profileLoaded,
                   confirmAsked, avatarAtMount, localStorage, outsideEdit>>

\* the Remove Photo button, rendered while there is an image
removeAvatar ==
    /\ EditReady
    /\ showAvatarOptions
    /\ avatarImage # NoItem
    /\ avatarImage' = NoItem
    /\ localStorage' = removeItem(localStorage, "userAvatar")
    /\ showAvatarOptions' = FALSE
    /\ unsavedEffectPending' = TRUE
    /\ userEdited' = TRUE
    /\ UNCHANGED <<formData, showDeleteConfirm, hasUnsavedChanges,
                   successMessage, errorMessage, editLoading, editPc,
                   profileLoaded, confirmAsked, avatarAtMount, outsideEdit>>

\* validateForm: the message it sets, "" when the form is valid
validateForm ==
    IF Trim(formData.firstName) = sEmpty \/ Trim(formData.lastName) = sEmpty
    THEN "First and last name are required"
    ELSE IF Trim(formData.email) = sEmpty \/ ~Includes(formData.email, sAt)
    THEN "Valid email is required"
    ELSE IF Len(formData.bio) > 200
    THEN "Bio must be 200 characters or less"
    ELSE ""

\* handleSave up to its await; the button is
\* disabled={loading || !!successMessage || !hasUnsavedChanges}
handleSave ==
    /\ EditReady
    /\ ~editLoading
    /\ successMessage = ""
    /\ hasUnsavedChanges
    /\ IF validateForm # ""
       THEN /\ errorMessage' = validateForm
            /\ UNCHANGED <<editLoading, editPc>>
       ELSE \E userId \in { "none", "u1" } :
              IF userId = "none"
              THEN /\ errorMessage' = "User not logged in"
                   /\ UNCHANGED <<editLoading, editPc>>
              ELSE /\ errorMessage' = ""
                   /\ editLoading' = TRUE
                   /\ editPc' = "saving"
    /\ UNCHANGED <<formData, avatarImage, showAvatarOptions,
                   showDeleteConfirm, hasUnsavedChanges, successMessage,
                   unsavedEffectPending, userEdited, profileLoaded,
                   confirmAsked, avatarAtMount, localStorage, outsideEdit>>

\* updateUserProfile resolves with the profile it was sent: the items are
\* written (lastUpdated left out), the navigation is set for 1.5 s later
SaveSuccess ==
    /\ editPc = "saving"
    /\ LET profileData == [ bio |-> formData.bio,
                            genre |-> formData.genre,
                            avatarColor |-> formData.avatarColor,
                            avatarEmoji |-> formData.avatarEmoji ]
           fullName == formData.firstName \o <<chSpace>> \o formData.lastName
           withProfile == setItem(localStorage, "userProfile", profileData)
           withAvatar == IF avatarImage # NoItem
                         THEN setItem(withProfile, "userAvatar", avatarImage[1])
                         ELSE withProfile
           registeredUser == localStorage.registeredUser
       IN  localStorage' =
              IF registeredUser # NoItem
              THEN setItem(withAvatar, "registeredUser",
                           [registeredUser[1] EXCEPT
                               !.name = fullName,
                               !.email = formData.email,
                               !.password = formData.password])
              ELSE withAvatar
    /\ successMessage' = "Profile updated successfully!"
    /\ hasUnsavedChanges' = FALSE
    /\ editLoading' = FALSE
    /\ editPc' = "saved"
    /\ UNCHANGED <<formData, avatarImage, showAvatarOptions,
                   showDeleteConfirm, errorMessage, unsavedEffectPending,
                   userEdited, profileLoaded, confirmAsked, avatarAtMount,
                   outsideEdit>>

\* updateUserProfile rejects
SaveFailure ==
    /\ editPc = "saving"
    /\ errorMessage' = "Error saving profile. Please try again."
    /\ editLoading' = FALSE
    /\ editPc' = "ready"
    /\ UNCHANGED <<formData, avatarImage, showAvatarOptions,
                   showDeleteConfirm, hasUnsavedChanges, successMessage,
                   unsavedEffectPending, userEdited, profileLoaded,
                   confirmAsked, avatarAtMount, localStorage, outsideEdit>>

\* setTimeout(() => navigate('/profile'), 1500)
NavigateAfterSave ==
    /\ editPc = "saved"
    /\ editPc' = "left"
    /\ UNCHANGED <<formData, avatarImage, showAvatarOptions,
                   showDeleteConfirm, hasUnsavedChanges, successMessage,
                   errorMessage, editLoading, unsavedEffectPending,
                   userEdited, profileLoaded, confirmAsked, avatarAtMount,
                   localStorage, outsideEdit>>

\* handleCancel with the confirmation accepted (declined, nothing changes)
handleCancel ==
    /\ EditReady
    /\ confirmAsked' = hasUnsavedChanges
    /\ editPc' = "left"
    /\ UNCHANGED <<formData, avatarImage, showAvatarOptions,
                   showDeleteConfirm, hasUnsavedChanges, successMessage,
                   errorMessage, editLoading, unsavedEffectPending,
                   userEdited, profileLoaded, avatarAtMount, localStorage,
                   outsideEdit>>

\* the Delete Account button and the close buttons of its dialog
SetShowDeleteConfirm ==
    /\ EditReady
    /\ showDeleteConfirm' = ~showDeleteConfirm
    /\ UNCHANGED <<formData, avatarImage, showAvatarOptions,
                   hasUnsavedChanges, successMessage, errorMessage,
                   editLoading, editPc, unsavedEffectPending, userEdited,
                   profileLoaded, confirmAsked, avatarAtMount, localStorage,
                   outsideEdit>>

\* handleDeleteAccount up to its await
handleDeleteAccount ==
    /\ EditReady
    /\ showDeleteConfirm
    /\ \E userId \in { "none", "u1" } :
          IF userId = "none"
          THEN UNCHANGED <<editLoading, editPc>>
          ELSE /\ editLoading' = TRUE
               /\ editPc' = "deleting"
    /\ UNCHANGED <<formData, avatarImage, showAvatarOptions,
                   showDeleteConfirm, hasUnsavedChanges, successMessage,
                   errorMessage, unsavedEffectPending, userEdited,
                   profileLoaded, confirmAsked, avatarAtMount, localStorage,
                   outsideEdit>>

\* deleteUserAccount resolves: localStorage.clear(); navigate('/login')
DeleteSuccess ==
    /\ editPc = "deleting"
    /\ localStorage' = EmptyStorage
    /\ editLoading' = FALSE
    /\ editPc' = "left"
    /\ UNCHANGED <<formData, avatarImage, showAvatarOptions,
                   showDeleteConfirm, hasUnsavedChanges, successMessage,
                   errorMessage, unsavedEffectPending, userEdited,
                   profileLoaded, confirmAsked, avatarAtMount, outsideEdit>>

\* deleteUserAccount rejects
DeleteFailure ==
    /\ editPc = "deleting"
    /\ errorMessage' = "Failed to delete account. Please try again."
    /\ showDeleteConfirm' = FALSE
    /\ editLoading' = FALSE
    /\ editPc' = "ready"
    /\ UNCHANGED <<formData, avatarImage, showAvatarOptions,
                   hasUnsavedChanges, successMessage, unsavedEffectPending,
                   userEdited, profileLoaded, confirmAsked, avatarAtMount,
                   localStorage, outsideEdit>>

NextEdit ==
    \/ EditMount
    \/ EditLoadSuccess
    \/ EditLoadFailure
    \/ UnsavedEffect
    \/ SetField
    \/ ToggleAvatarOptions
    \/ ChooseColor
    \/ ChooseEmoji
    \/ handleAvatarUpload
    \/ removeAvatar
    \/ handleSave
    \/ SaveSuccess
    \/ SaveFailure
    \/ NavigateAfterSave
    \/ handleCancel
    \/ SetShowDeleteConfirm
    \/ handleDeleteAccount
    \/ DeleteSuccess
    \/ DeleteFailure

SpecEdit == InitEdit /\ [][NextEdit]_vars

(***************************************************************************)
(* Properties                                                              *)
(***************************************************************************)
InSeq(m, s) == \E i \in 1..Len(s) : s[i] = m

\* filter-then-sort of the base under the criteria and sort key of the state
CurrentResult ==
    FilterAndSort(movies, searchQuery, selectedGenres, ratingFilter,
                  durationFilter, dateRange, sortBy)

\* C1: once the effect that a change of a filter criterion or of the sort key
\* schedules has run, and right after a change of the page size, currentPage
\* is 1, whatever page was shown when the change was made.
C1_PageResetAfterChange ==
    (changedFrom > 0 /\ ~effectPending) => currentPage = 1

\* a change made on page 2 has been recomputed
C1_Witness ==
    /\ changedFrom = 2
    /\ ~effectPending
    /\ currentPage = 1
    /\ Len(filteredMovies) > itemsPerPage

C3_PageInRange ==
    /\ 1 <= currentPage
    /\ currentPage <= Max(totalPages, 1)

\* the last of several pages is shown
C3_Witness ==
    /\ totalPages > 1
    /\ currentPage = totalPages
    /\ ~effectPending

\* the survivors of the filter stage, before the sort
CurrentFiltered ==
    FilterStage(movies, searchQuery, selectedGenres, ratingFilter,
                durationFilter, dateRange)

\* s can be obtained from t by dropping entries
RECURSIVE IsSubsequence(_, _)
IsSubsequence(s, t) ==
    IF s = <<>> THEN TRUE
    ELSE IF t = <<>> THEN FALSE
    ELSE IF Head(s) = Head(t) THEN IsSubsequence(Tail(s), Tail(t))
    ELSE IsSubsequence(s, Tail(t))

Occurrences(m, s) == Cardinality({ i \in 1..Len(s) : s[i] = m })

SearchOff == Trim(searchQuery) = <<>>
GenreOff == selectedGenres = <<>>
RatingOff == ratingFilter = sAll
DurationOff == durationFilter = "all"
DateOff == dateRange.from = <<>> /\ dateRange.to = <<>>

\* C4: the filtered sequence holds only entries of the base, each at most as
\* often as the base does, and before the sort the survivors are in the order
\* of the base.
C4_FilteredWithinBase ==
    /\ IsSubsequence(CurrentFiltered, movies)
    /\ ~effectPending =>
         /\ \A i \in 1..Len(filteredMovies) :
               /\ InSeq(filteredMovies[i], movies)
               /\ Occurrences(filteredMovies[i], filteredMovies)
                    <= Occurrences(filteredMovies[i], movies)
         /\ Len(filteredMovies) = Len(CurrentFiltered)
         /\ \A i \in 1..Len(CurrentFiltered) :
               InSeq(CurrentFiltered[i], filteredMovies)

\* a search dropped an entry and kept the others
C4_Witness ==
    /\ ~effectPending
    /\ ~SearchOff
    /\ Len(filteredMovies) >= 2
    /\ Len(filteredMovies) < Len(movies)

\* the predicates of the five categories, as the claim states them
C5_Search(m) ==
    SearchOff \/ \E f \in { "name", "genre", "description" } :
                    Has(m, f) /\ Includes(ToLowerCase(m[f]), ToLowerCase(searchQuery))
C5_Genre(m) ==
    GenreOff \/ (Has(m, "genre")
                   /\ \E i \in 1..Len(selectedGenres) : selectedGenres[i] = m.genre)
C5_Rating(m) ==
    ratingFilter = sAll \/ (Has(m, "rating") /\ m.rating = ratingFilter)
C5_Minutes(m) == IF Has(m, "duration") THEN m.duration ELSE 0
C5_Duration(m) ==
    \/ durationFilter = "all"
    \/ (durationFilter = "short" /\ C5_Minutes(m) < 90)
    \/ (durationFilter = "medium" /\ 90 <= C5_Minutes(m) /\ C5_Minutes(m) <= 120)
    \/ (durationFilter = "long" /\ C5_Minutes(m) > 120)
C5_Ticks(m) == m.dateAdded[1] * TicksPerDay + m.dateAdded[2]
C5_Date(m) ==
    \/ DateOff
    \/ ~Has(m, "dateAdded")
    \/ /\ dateRange.from # <<>> => dateRange.from[1] * TicksPerDay <= C5_Ticks(m)
       /\ dateRange.to # <<>> => C5_Ticks(m) <= dateRange.to[1] * TicksPerDay

\* C5: an entry of the base is in the filtered set iff it passes the search,
\* genre, rating, duration and date predicates all at once; the rating
\* predicate is "all" or exact equality; with every category at its default
\* no entry is excluded.
C5_CategoriesConjoined ==
    ~effectPending =>
      /\ \A i \in 1..Len(movies) :
            InSeq(movies[i], filteredMovies) <=>
              /\ C5_Search(movies[i])
              /\ C5_Genre(movies[i])
              /\ C5_Rating(movies[i])
              /\ C5_Duration(movies[i])
              /\ C5_Date(movies[i])
      /\ (searchQuery = <<>> /\ GenreOff /\ RatingOff /\ DurationOff /\ DateOff)
            => Len(filteredMovies) = Len(movies)

\* a rating and a bucket are set; one entry passes both, one has the rating
\* but not the bucket, one has no rating
C5_Witness ==
    /\ ~effectPending
    /\ ratingFilter = sR
    /\ durationFilter = "short"
    /\ Len(filteredMovies) >= 1
    /\ \E i \in 1..Len(movies) :
          Has(movies[i], "rating") /\ movies[i].rating = sR
            /\ ~InSeq(movies[i], filteredMovies)
    /\ \E i \in 1..Len(movies) : ~Has(movies[i], "rating")

OnlySearch == GenreOff /\ RatingOff /\ DurationOff /\ DateOff

\* the search predicate as the claim states it
C6_Match(m) ==
    \/ Includes(ToLowerCase(m.name), ToLowerCase(searchQuery))
    \/ (Has(m, "genre") /\ Includes(ToLowerCase(m.genre), ToLowerCase(searchQuery)))
    \/ (Has(m, "description")
          /\ Includes(ToLowerCase(m.description), ToLowerCase(searchQuery)))

\* C6 as stated: for every non-empty searchText an entry passes the search
\* iff the lower-cased text is a substring of its lower-cased title, genre or
\* description.
C6_AnyNonEmptySearch ==
    (~effectPending /\ OnlySearch /\ searchQuery # <<>>) =>
       \A i \in 1..Len(movies) :
          InSeq(movies[i], filteredMovies) <=> C6_Match(movies[i])

\* C6 amended: for every searchText that is not empty after trimming
\* white space an entry passes the search iff the lower-cased (untrimmed) text
\* is a substring of its lower-cased title, genre or description; a search of
\* white space only excludes no entry.
C6_NonBlankSearch ==
    /\ (~effectPending /\ OnlySearch /\ Trim(searchQuery) # <<>>) =>
          \A i \in 1..Len(movies) :
             InSeq(movies[i], filteredMovies) <=> C6_Match(movies[i])
    /\ (~effectPending /\ Trim(searchQuery) # <<>>) =>
          \A i \in 1..Len(filteredMovies) : C6_Match(filteredMovies[i])
    /\ (~effectPending /\ OnlySearch /\ Trim(searchQuery) = <<>>) =>
          Len(filteredMovies) = Len(movies)

\* "aB" found in a title of another case, and an entry with neither genre nor
\* description rejected for its title alone
C6_Witness ==
    /\ ~effectPending
    /\ OnlySearch
    /\ searchQuery = sQuery
    /\ \E i \in 1..Len(filteredMovies) :
          /\ ~Has(filteredMovies[i], "description")
          /\ ~Includes(filteredMovies[i].name, sQuery)
    /\ \E i \in 1..Len(movies) :
          /\ ~Has(movies[i], "genre")
          /\ ~InSeq(movies[i], filteredMovies)

OnlyGenre == SearchOff /\ RatingOff /\ DurationOff /\ DateOff

\* C7: with a genre selected an entry passes iff it has a genre and that genre
\* is one of the selected; entries without a genre are excluded.
C7_GenreMembership ==
    (~effectPending /\ Len(selectedGenres) > 0) =>
       /\ \A i \in 1..Len(filteredMovies) :
             /\ Has(filteredMovies[i], "genre")
             /\ \E k \in 1..Len(selectedGenres) :
                   selectedGenres[k] = filteredMovies[i].genre
       /\ OnlyGenre =>
            \A i \in 1..Len(movies) :
               InSeq(movies[i], filteredMovies) <=>
                  /\ Has(movies[i], "genre")
                  /\ \E k \in 1..Len(selectedGenres) :
                        selectedGenres[k] = movies[i].genre

\* two genres are selected, an entry of the second one passes and an entry
\* without a genre is excluded
C7_Witness ==
    /\ ~effectPending
    /\ OnlyGenre
    /\ Len(selectedGenres) = 2
    /\ \E i \in 1..Len(filteredMovies) :
          filteredMovies[i].genre = selectedGenres[2]
    /\ \E i \in 1..Len(movies) : ~Has(movies[i], "genre")

OnlyDuration == SearchOff /\ GenreOff /\ RatingOff /\ DateOff

C8_Minutes(m) == IF Has(m, "duration") THEN m.duration ELSE 0
C8_InBucket(m, bucket) ==
    \/ (bucket = "short" /\ C8_Minutes(m) < 90)
    \/ (bucket = "medium" /\ 90 <= C8_Minutes(m) /\ C8_Minutes(m) <= 120)
    \/ (bucket = "long" /\ C8_Minutes(m) > 120)

\* C8: with the duration defaulted to 0, short is < 90, medium 90..120, long
\* > 120; every entry is in exactly one bucket of the filter.
C8_DurationBuckets ==
    /\ (~effectPending /\ durationFilter # "all") =>
          /\ \A i \in 1..Len(filteredMovies) :
                C8_InBucket(filteredMovies[i], durationFilter)
          /\ OnlyDuration =>
               \A i \in 1..Len(movies) :
                  InSeq(movies[i], filteredMovies)
                     <=> C8_InBucket(movies[i], durationFilter)
    /\ \A i \in 1..Len(movies) :
          Cardinality({ b \in { "short", "medium", "long" } :
                          DurationMatch(DurationOf(movies[i]), b) }) = 1

\* the medium bucket holds an entry of 90 or 120 minutes and drops one of 89
\* or 121 minutes or one without a duration
C8_Witness ==
    /\ ~effectPending
    /\ OnlyDuration
    /\ durationFilter = "medium"
    /\ \E i \in 1..Len(filteredMovies) :
          filteredMovies[i].duration \in { 90, 120 }
    /\ \E i \in 1..Len(movies) : ~InSeq(movies[i], filteredMovies)

OnlyDate == SearchOff /\ GenreOff /\ RatingOff /\ DurationOff

C9_Ticks(m) == m.dateAdded[1] * TicksPerDay + m.dateAdded[2]
C9_InRange(m) ==
    /\ dateRange.from # <<>> => dateRange.from[1] * TicksPerDay <= C9_Ticks(m)
    /\ dateRange.to # <<>> => C9_Ticks(m) <= dateRange.to[1] * TicksPerDay

\* C9: with a bound set an entry without dateAdded passes, and an entry with
\* a dateAdded passes iff it is within the set bounds, both inclusive.
C9_DateRange ==
    (~effectPending /\ ~DateOff) =>
       /\ \A i \in 1..Len(filteredMovies) :
             Has(filteredMovies[i], "dateAdded") => C9_InRange(filteredMovies[i])
       /\ OnlyDate =>
            \A i \in 1..Len(movies) :
               InSeq(movies[i], filteredMovies) <=>
                  (~Has(movies[i], "dateAdded") \/ C9_InRange(movies[i]))

\* both bounds are the same day: the entry dated at that bound passes, with an
\* entry without a date, and a dated entry is excluded
C9_Witness ==
    /\ ~effectPending
    /\ OnlyDate
    /\ dateRange.from = <<RangeDay>>
    /\ dateRange.to = <<RangeDay>>
    /\ \E i \in 1..Len(filteredMovies) :
          /\ Has(filteredMovies[i], "dateAdded")
          /\ C9_Ticks(filteredMovies[i]) = RangeDay * TicksPerDay
    /\ \E i \in 1..Len(filteredMovies) : ~Has(filteredMovies[i], "dateAdded")
    /\ Len(filteredMovies) < Len(movies)

\* the sort keys with their defaults, as the claim states them
C10_Rating(m) == IF Has(m, "rating") THEN m.rating ELSE <<>>
C10_Minutes(m) == IF Has(m, "duration") THEN m.duration ELSE 0
C10_Time(m) ==
    IF Has(m, "dateAdded")
    THEN m.dateAdded[1] * TicksPerDay + m.dateAdded[2] ELSE 0

C10_InOrder(a, b) ==
    CASE sortBy = "name" -> LocaleCompare(a.name, b.name) <= 0
      [] sortBy = "rating" -> LocaleCompare(C10_Rating(a), C10_Rating(b)) >= 0
      [] sortBy = "duration" -> C10_Minutes(a) >= C10_Minutes(b)
      [] sortBy = "dateAdded" -> C10_Time(a) >= C10_Time(b)

\* C10: the sort returns a permutation of the filtered sequence in the order
\* of the active key: title ascending, rating descending in string order
\* (missing as ""), duration descending (missing as 0), dateAdded descending
\* (missing as 0).
C10_SortedPermutation ==
    ~effectPending =>
       /\ Len(filteredMovies) = Len(CurrentFiltered)
       /\ \A i \in 1..Len(CurrentFiltered) :
             Occurrences(CurrentFiltered[i], filteredMovies)
                = Occurrences(CurrentFiltered[i], CurrentFiltered)
       /\ \A i, j \in 1..Len(filteredMovies) :
             i < j => C10_InOrder(filteredMovies[i], filteredMovies[j])

\* the sort by duration moved an entry without a duration behind another
C10_Witness ==
    /\ ~effectPending
    /\ sortBy = "duration"
    /\ filteredMovies # movies
    /\ Len(filteredMovies) >= 2
    /\ ~Has(filteredMovies[Len(filteredMovies)], "duration")

C12_SameKey(a, b) ==
    CASE sortBy = "name" -> a.name = b.name
      [] sortBy = "rating" -> C10_Rating(a) = C10_Rating(b)
      [] sortBy = "duration" -> C10_Minutes(a) = C10_Minutes(b)
      [] sortBy = "dateAdded" -> C10_Time(a) = C10_Time(b)

\* the index of the entry in the sequence
IndexIn(m, s) == CHOOSE i \in 1..Len(s) : s[i] = m

\* C12: two entries whose sort keys are equal are in the sorted output in the
\* order they have in the filtered sequence, the order of the base.
C12_StableSort ==
    ~effectPending =>
       \A i, j \in 1..Len(filteredMovies) :
          (i < j /\ C12_SameKey(filteredMovies[i], filteredMovies[j])) =>
             /\ IndexIn(filteredMovies[i], CurrentFiltered)
                  < IndexIn(filteredMovies[j], CurrentFiltered)
             /\ IndexIn(filteredMovies[i], movies)
                  < IndexIn(filteredMovies[j], movies)

\* the sort moved an entry, and two entries that both lack the sorted field
\* kept their order
C12_Witness ==
    /\ ~effectPending
    /\ sortBy = "rating"
    /\ filteredMovies # movies
    /\ \E i, j \in 1..Len(filteredMovies) :
          /\ i < j
          /\ ~Has(filteredMovies[i], "rating")
          /\ ~Has(filteredMovies[j], "rating")

\* C13: totalPages is 0 iff the filtered sequence is empty, and otherwise the
\* least number of pages of itemsPerPage entries that hold it.
C13_TotalPages ==
    /\ (totalPages = 0) <=> (Len(filteredMovies) = 0)
    /\ Len(filteredMovies) > 0 =>
         /\ (totalPages - 1) * itemsPerPage < Len(filteredMovies)
         /\ Len(filteredMovies) <= totalPages * itemsPerPage

\* the filters left nothing of a base that is not empty
C13_Witness ==
    /\ ~effectPending
    /\ ~loading
    /\ Len(movies) > 0
    /\ Len(filteredMovies) = 0
    /\ totalPages = 0

\* C14: the page slice is the window of the filtered sequence from index
\* (currentPage - 1) * itemsPerPage to currentPage * itemsPerPage exclusive,
\* cut at its length; with page size 1 on page 2 it is the second entry.
C14_PageSlice ==
    LET lo == (currentPage - 1) * itemsPerPage
        hi == currentPage * itemsPerPage
    IN  /\ Len(currentMovies)
             = Cardinality({ k \in 1..Len(filteredMovies) : lo < k /\ k <= hi })
        /\ \A k \in 1..Len(currentMovies) :
              currentMovies[k] = filteredMovies[lo + k]
        /\ (itemsPerPage = 1 /\ currentPage = 2 /\ Len(filteredMovies) >= 2)
              => currentMovies = << filteredMovies[2] >>

\* page 2 of three pages of one entry
C14_Witness ==
    /\ ~effectPending
    /\ itemsPerPage = 1
    /\ currentPage = 2
    /\ Len(filteredMovies) = 3
    /\ currentMovies = << filteredMovies[2] >>

RECURSIVE SumOfSizes(_)
SumOfSizes(groups) ==
    IF groups = <<>> THEN 0
    ELSE Len(Head(groups).items) + SumOfSizes(Tail(groups))

\* C15: every entry of the page slice is in exactly one bucket, every entry
\* of a bucket is on the page, and the sizes of the buckets add up to the
\* length of the page slice.
C15_GroupsPartitionPage ==
    /\ \A b \in 1..Len(groupedMovies) :
          \A k \in 1..Len(groupedMovies[b].items) :
             InSeq(groupedMovies[b].items[k], currentMovies)
    /\ \A i \in 1..Len(currentMovies) :
          Cardinality({ b \in 1..Len(groupedMovies) :
                          InSeq(currentMovies[i], groupedMovies[b].items) }) = 1
    /\ \A b \in 1..Len(groupedMovies) :
          \A k \in 1..Len(groupedMovies[b].items) :
             Occurrences(groupedMovies[b].items[k], groupedMovies[b].items) = 1
    /\ SumOfSizes(groupedMovies) = Len(currentMovies)

\* a page of two years, with entries left for another page
C15_Witness ==
    /\ ~effectPending
    /\ groupBy = "year"
    /\ Len(groupedMovies) = 2
    /\ Len(currentMovies) < Len(filteredMovies)

\* C16: for group key month or year the buckets are enumerated in the order
\* in which their first entries come in the page slice, and the entries of a
\* bucket are in the order of the page slice.
C16_FirstEncounterOrder ==
    groupBy \in { "month", "year" } =>
       /\ \A b, c \in 1..Len(groupedMovies) :
             b < c => IndexIn(groupedMovies[b].items[1], currentMovies)
                        < IndexIn(groupedMovies[c].items[1], currentMovies)
       /\ \A b \in 1..Len(groupedMovies) :
             IsSubsequence(groupedMovies[b].items, currentMovies)

C17_IsUnknown(group) == group.key = [kind |-> "Unknown"]

\* C17: with group key month or year every entry of the page slice without a
\* dateAdded is in the bucket "Unknown", no dated entry is, and there is at
\* most one such bucket.
C17_UnknownBucket ==
    groupBy \in { "month", "year" } =>
       /\ \A b \in 1..Len(groupedMovies) :
             \A k \in 1..Len(groupedMovies[b].items) :
                C17_IsUnknown(groupedMovies[b])
                   <=> ~Has(groupedMovies[b].items[k], "dateAdded")
       /\ \A i \in 1..Len(currentMovies) :
             ~Has(currentMovies[i], "dateAdded") =>
                \E b \in 1..Len(groupedMovies) :
                   /\ C17_IsUnknown(groupedMovies[b])
                   /\ InSeq(currentMovies[i], groupedMovies[b].items)
       /\ Cardinality({ b \in 1..Len(groupedMovies) :
                          C17_IsUnknown(groupedMovies[b]) }) <= 1

\* a page of two undated entries, grouped by year
C17_Witness ==
    /\ ~effectPending
    /\ groupBy = "year"
    /\ Len(currentMovies) = 2
    /\ Len(groupedMovies) = 1
    /\ C17_IsUnknown(groupedMovies[1])
    /\ Len(groupedMovies[1].items) = 2

\* C18 as stated: when the filtered set is empty, for every group key
\* totalPages and filteredCount are 0 and the grouped page has no bucket.
C18_EmptyMeansNoBucket ==
    (~effectPending /\ Len(filteredMovies) = 0) =>
       /\ totalPages = 0
       /\ filteredCount = 0
       /\ groupedMovies = <<>>

\* C18 amended: when the filtered set is empty totalPages and filteredCount
\* are 0; for group key month or year the grouped page has no bucket, and for
\* group key none it has the one bucket "All Movies", which is empty.
C18_EmptyFilteredSet ==
    (~effectPending /\ Len(filteredMovies) = 0) =>
       /\ totalPages = 0
       /\ filteredCount = 0
       /\ groupBy \in { "month", "year" } => groupedMovies = <<>>
       /\ groupBy = "none" =>
            /\ Len(groupedMovies) = 1
            /\ groupedMovies[1].key = [kind |-> "All Movies"]
            /\ groupedMovies[1].items = <<>>

\* a filter left nothing of a base that is not empty, grouped by month
C18_Witness ==
    /\ ~effectPending
    /\ Len(movies) > 0
    /\ Len(filteredMovies) = 0
    /\ groupBy = "month"
    /\ groupedMovies = <<>>

RECURSIVE C19_Minutes(_)
C19_Minutes(s) ==
    IF s = <<>> THEN 0
    ELSE (IF Has(Head(s), "duration") THEN Head(s).duration ELSE 0)
           + C19_Minutes(Tail(s))

\* C19: totalMovies is the number of entries of the base, totalHours is the
\* minutes of the whole base (0 for a missing duration) over 60 rounded to
\* the nearest integer, halves up, whatever the filters; filteredCount is the
\* number of entries that pass the filters.
C19_Statistics ==
    /\ totalMovies = Len(movies)
    /\ 60 * (2 * totalHours - 1) <= 2 * C19_Minutes(movies)
    /\ 2 * C19_Minutes(movies) < 60 * (2 * totalHours + 1)
    /\ ~effectPending =>
         filteredCount =
            Cardinality({ i \in 1..Len(movies) :
                            /\ C5_Search(movies[i])
                            /\ C5_Genre(movies[i])
                            /\ C5_Rating(movies[i])
                            /\ C5_Duration(movies[i])
                            /\ C5_Date(movies[i]) })

\* the minutes of the base are an odd number of half hours, and a filter
\* dropped an entry
C19_Witness ==
    /\ ~effectPending
    /\ C19_Minutes(movies) % 60 = 30
    /\ filteredCount < totalMovies
    /\ filteredCount > 0

FailedToLoad == error = "Failed to load history. Please try again."

\* C20: a failed load leaves the base as it was, sets the error flag and
\* starts no other load, and the result is still computed from that base; a
\* load that succeeds clears the error flag.
C20_LoadFailure ==
    /\ [](FailedToLoad =>
            /\ loadPc = "done"
            /\ ~loading
            /\ movies = <<>>
            /\ ~effectPending => filteredMovies = CurrentResult)
    /\ [][(loadPc = "awaiting" /\ error' # "")
             => (movies' = movies /\ FailedToLoad' /\ loadPc' = "done")]_vars
    /\ [][(loadPc = "awaiting" /\ loadPc' = "done" /\ movies' # movies)
             => error' = ""]_vars

\* after the failed load a search was made and recomputed on the empty base
C20_Witness ==
    /\ FailedToLoad
    /\ ~loading
    /\ ~effectPending
    /\ searchQuery = sQuery
    /\ movies = <<>>
    /\ filteredMovies = <<>>

\* a step of the Previous or the Next button: the page number changes while
\* the list is shown and the page size stays
C21_PageStep ==
    /\ Ready
    /\ currentPage' # currentPage
    /\ itemsPerPage' = itemsPerPage

\* C21: a step of the Previous or Next button moves currentPage by one page
\* inside 1..totalPages and leaves the base, every filter criterion, the sort
\* key, the group key, the page size, the filtered sequence and the three
\* statistics as they were; it schedules no run of applyFilters.
C21_PageChangeFrame ==
    [][C21_PageStep =>
         /\ UNCHANGED <<movies, criteria, sortBy, groupBy, itemsPerPage,
                        filteredMovies>>
         /\ totalMovies' = totalMovies
         /\ totalHours' = totalHours
         /\ filteredCount' = filteredCount
         /\ totalPages' = totalPages
         /\ ~effectPending'
         /\ currentPage' \in { currentPage - 1, currentPage + 1 }
         /\ currentPage' \in 1..totalPages]_vars

\* the third page of a sorted, grouped and filtered list
C21_Witness ==
    /\ ~effectPending
    /\ currentPage = 3
    /\ totalPages = 3
    /\ sortBy = "dateAdded"
    /\ groupBy = "year"

\* C22: once the load has ended, no step changes the base collection: after
\* any sequence of filter, sort, group, page-size and page changes, movies
\* holds the entries of the load in their order, also when no filter is
\* active and the sort reorders the result.
C22_BaseNeverMutated ==
    [][loadPc = "done" => movies' = movies]_vars

\* no filter is active and the sort by duration has put the whole base in
\* another order than the order of the load
C22_Witness ==
    /\ loadPc = "done"
    /\ ~effectPending
    /\ SearchOff /\ GenreOff /\ RatingOff /\ DurationOff /\ DateOff
    /\ sortBy = "duration"
    /\ Len(filteredMovies) = Len(movies)
    /\ Len(movies) > 1
    /\ filteredMovies # movies

C24_GroupChangeFrame ==
    [][groupBy' # groupBy =>
         /\ UNCHANGED <<movies, criteria, sortBy, itemsPerPage, currentPage,
                        filteredMovies>>
         /\ ~effectPending'
         /\ currentMovies' = currentMovies
         /\ totalPages' = totalPages
         /\ totalMovies' = totalMovies
         /\ totalHours' = totalHours
         /\ filteredCount' = filteredCount]_vars

\* the second of two pages is shown grouped by month
C24_Witness ==
    /\ ~effectPending
    /\ groupBy = "month"
    /\ currentPage = 2
    /\ totalPages = 2
    /\ Len(currentMovies) = 1

\* the criteria as resetFilters leaves them
C25_AllReset ==
    /\ searchQuery = sEmpty
    /\ selectedGenres = <<>>
    /\ ratingFilter = sAll
    /\ durationFilter = "all"
    /\ dateRange = [from |-> <<>>, to |-> <<>>]

C30_LoadEnds ==
    /\ <>(loadPc = "done")
    /\ [](loadPc = "done" => ~loading)
    /\ [][(loadPc = "mount" /\ loadPc' = "done") =>
            /\ error' = "User not logged in"
            /\ movies' = movies]_vars
    /\ [](error = "User not logged in" => (loadPc = "done" /\ movies = <<>>))
    /\ [][loadPc = "awaiting" => loadPc' \in { "awaiting", "done" }]_vars

\* the view of a visitor who is not logged in, after a search
C30_Witness ==
    /\ error = "User not logged in"
    /\ loadPc = "done"
    /\ ~loading
    /\ ~effectPending
    /\ searchQuery = sQuerySp

\* C26: loginAttempts never exceeds MAX_LOGIN_ATTEMPTS; whenever it equals
\* MAX_LOGIN_ATTEMPTS the login is blocked, with loginBlockedUntil stored; a
\* run of handleSubmit while blocked starts no request, does not call
\* onLogin and leaves the counter, the block and the stored keys as they were.
C26_AttemptsBounded ==
    /\ [](loginAttempts <= MAX_LOGIN_ATTEMPTS)
    /\ [](loginAttempts = MAX_LOGIN_ATTEMPTS =>
            (isBlocked /\ localStorage.loginBlockedUntil # NoItem))
    /\ [][(isBlocked /\ handleSubmit) =>
            /\ UNCHANGED <<loginAttempts, isBlocked, blockTimeRemaining,
                           onLoginCalled, localStorage>>
            /\ loginPc' = "idle"
            /\ ~loginLoading']_vars

\* the form was submitted during the block that the third failure started
C26_Witness ==
    /\ loginAttempts = MAX_LOGIN_ATTEMPTS
    /\ isBlocked
    /\ loginError.msg = "Too many failed attempts. Please wait n seconds."
    /\ loginError.n = 1
    /\ localStorage.loginAttempts = <<MAX_LOGIN_ATTEMPTS>>
    /\ ~onLoginCalled

\* C27: a block ends when the timeout of the countdown keeps firing: the
\* login is unblocked, loginAttempts is 0 and the keys loginBlockedUntil and
\* loginAttempts are removed; a mount that finds loginBlockedUntil in the
\* future blocks the login again and keeps the keys.
C27_BlockEnds ==
    /\ isBlocked ~> (/\ ~isBlocked
                     /\ loginAttempts = 0
                     /\ localStorage.loginBlockedUntil = NoItem
                     /\ localStorage.loginAttempts = NoItem)
    /\ [][(LoginMount /\ BlockAhead(localStorage)) =>
            /\ isBlocked'
            /\ blockTimeRemaining' > 0
            /\ loginAttempts' = MAX_LOGIN_ATTEMPTS
            /\ localStorage' = localStorage]_vars

\* the countdown has ended the block on the page that started it
C27_Witness ==
    /\ ~isBlocked
    /\ loginAttempts = 0
    /\ blockTimeRemaining = 0
    /\ localStorage.loginBlockedUntil = NoItem
    /\ localStorage.loginAttempts = NoItem
    /\ loginError.msg = "Too many failed attempts. Account temporarily blocked for 1 minute."

\* C28 as stated: once loadUserProfile has completed with success and its
\* effects have run, and before the user has edited formData or avatarImage,
\* hasUnsavedChanges is FALSE.
C28_CleanAfterLoad ==
    (/\ profileLoaded
     /\ ~userEdited
     /\ editPc = "ready"
     /\ ~unsavedEffectPending) => ~hasUnsavedChanges

\* C29 as stated: a successful handleSave leaves the item userAvatar stored
\* if and only if avatarImage is an image, and handleCancel leaves the page
\* with the item userAvatar as the mount found it.
C29_AvatarFollowsSave ==
    /\ [][SaveSuccess =>
            ((localStorage'.userAvatar # NoItem) <=> (avatarImage # NoItem))]_vars
    /\ [][handleCancel => localStorage'.userAvatar = avatarAtMount]_vars

====
